---- MODULE Spec2Model ----
(***************************************************************************)
(* A model of the two utilities of Engineering-Supply-Chain-Models:        *)
(*   - SupplyChainOptimizer (src/PROJECT.py): builds a binary assignment   *)
(*     program from cost/distance tables, hands it to the CBC solver and   *)
(*     extracts the pairs whose variable is 1;                             *)
(*   - SimpleExponentialSmoothing (src/ses_model_and_example_combined.py): *)
(*     validates alpha and folds a demand series with the recurrence       *)
(*     forecast = alpha * actual + (1 - alpha) * forecast.                 *)
(*                                                                         *)
(* Numbers.  Python computes both in floating point.  The model computes   *)
(* in exact arithmetic: weights are counted in tenths (0.6 is 6), which    *)
(* multiplies every objective value by ten and keeps their order; alpha    *)
(* and the forecasts are exact fractions in lowest terms.  Rounding error  *)
(* is therefore outside the model, and so is a solver that leaves a value  *)
(* near 1 but not equal to it in a binary variable.                        *)
(***************************************************************************)
EXTENDS Integers, Sequences, FiniteSets, TLC

VARIABLES
    \* which of the two independent modules this run executes
    program,
    \* SupplyChainOptimizer: the instance's fields (self.*)
    costs, distances, facilities, demand_points,
    \* the last call of solve: its arguments and what became of it
    opt_pc, weight_cost, weight_distance,
    solver_invoked, solver_status, solution, opt_error,
    \* SimpleExponentialSmoothing: the constructor's argument, the instance's
    \* field, the last call of forecast: its argument and what became of it
    alpha_arg, alpha, ses_pc, demand_series, forecast, ses_error

opt_vars == <<costs, distances, facilities, demand_points, opt_pc, weight_cost,
              weight_distance, solver_invoked, solver_status, solution, opt_error>>
ses_vars == <<alpha_arg, alpha, ses_pc, demand_series, forecast, ses_error>>
vars == <<program, opt_vars, ses_vars>>

(***************************************************************************)
(* Bounds and the input universe                                           *)
(***************************************************************************)
\* table entries are drawn from 0..MaxVal
MaxVal == 1
Vals == 0..MaxVal

\* identifiers, from the sample usage (D3 is left out to keep the tables small)
FacilityIds == {"F1", "F2"}
DemandIds == {"D1", "D2"}

\* the (weight_cost, weight_distance) pairs tried, in tenths: (1, 0), (0, 1),
\* the defaults (0.5, 0.5) and the sample's (0.6, 0.4)
Weights == {<<10, 0>>, <<0, 10>>, <<5, 5>>, <<6, 4>>}

\* a variable's varValue when it is None (a number no solver assigns, so that
\* it compares with 0 and 1), the value of a field nothing has been assigned
\* to, and the absence of an exception
None == -1
NoValue == "NoValue"
NoError == [type |-> "None", args |-> <<>>]

Range(s) == {s[i] : i \in DOMAIN s}

\* the lists of unique identifiers drawn from S, in every order
UniqueSeqs(S) ==
    UNION {{s \in [1..n -> S] : \A i, j \in 1..n : i # j => s[i] # s[j]} :
           n \in 0..Cardinality(S)}

\* a dict of dicts with an entry for every pair of F \X D
FullTables(F, D) == [F -> [D -> Vals]]

\* the same with every entry equal
FlatTables(F, D) == {[f \in F |-> [d \in D |-> v]] : v \in Vals}

\* del t[f]
RemoveRow(t, f) == [g \in DOMAIN t \ {f} |-> t[g]]

\* del t[f][d]
RemoveEntry(t, f, d) ==
    [g \in DOMAIN t |-> IF g = f THEN [e \in DOMAIN t[g] \ {d} |-> t[g][e]] ELSE t[g]]

\* t with at most one row or one entry taken out
WithHole(t, F, D) ==
    {t} \cup {RemoveRow(t, f) : f \in F}
        \cup {RemoveEntry(t, f, d) : f \in F, d \in D}

\* the tables with a hole tried: their other entries are flat (no entry is
\* read once a lookup has failed)
HoledTables(F, D) == UNION {WithHole(b, F, D) : b \in FlatTables(F, D)}

(***************************************************************************)
(* SupplyChainOptimizer                                                    *)
(***************************************************************************)
\* (f, d) is a key path of the dict of dicts t
HasEntry(t, f, d) == f \in DOMAIN t /\ d \in DOMAIN t[f]

\* the KeyError of t[f][d]: its only argument is the key that was not found
KeyErrorOf(t, f, d) ==
    [type |-> "KeyError", args |-> <<IF f \in DOMAIN t THEN d ELSE f>>]

\* "for f in self.facilities for d in self.demand_points": the pairs in order
PairSeq(fs, ds) ==
    [k \in 1..(Len(fs) * Len(ds)) |->
        <<fs[((k - 1) \div Len(ds)) + 1], ds[((k - 1) % Len(ds)) + 1]>>]

\* the keys of x
VarKeys(fs, ds) == Range(PairSeq(fs, ds))

\* plausible slips: the distance term forgotten; the two weights swapped
ObjCoeff_CostOnly(c, t, wc, wd) == wc * c
ObjCoeff_Swapped(c, t, wc, wd) == wd * c + wc * t

\* the objective's coefficient of x[(f, d)], in tenths
ObjCoeff(c, t, wc, wd) == wc * c + wd * t

\* the exception building the objective raises, if any: the terms are
\* evaluated in order, and in a term costs[f][d] before distances[f][d]
ObjectiveError(cs, ts, fs, ds) ==
    LET ps == PairSeq(fs, ds)
        bad == {k \in DOMAIN ps :
                    \/ ~HasEntry(cs, ps[k][1], ps[k][2])
                    \/ ~HasEntry(ts, ps[k][1], ps[k][2])}
    IN  IF bad = {} THEN NoError
        ELSE LET k == CHOOSE i \in bad : \A j \in bad : i <= j
                 f == ps[k][1]
                 d == ps[k][2]
             IN  IF ~HasEntry(cs, f, d) THEN KeyErrorOf(cs, f, d)
                 ELSE KeyErrorOf(ts, f, d)

\* the right-hand side of a demand point's constraint
AssignRhs == 1

\* a plausible slip: "served by at least one facility"
AssignConstraint_AtLeast(fs, d) ==
    [name |-> d, vars |-> {<<f, d>> : f \in Range(fs)}, sense |-> ">=",
     rhs |-> AssignRhs]

\* "Assign_d": the sum over the facilities of x[(f, d)] equals 1
AssignConstraint(fs, d) ==
    [name |-> d, vars |-> {<<f, d>> : f \in Range(fs)}, sense |-> "==",
     rhs |-> AssignRhs]

\* the LpProblem solve hands to the solver
BuildModel(cs, ts, fs, ds, wc, wd) ==
    [vars |-> VarKeys(fs, ds),
     objective |-> [p \in VarKeys(fs, ds) |->
                        ObjCoeff(cs[p[1]][p[2]], ts[p[1]][p[2]], wc, wd)],
     constraints |-> {AssignConstraint(fs, d) : d \in Range(ds)}]

RECURSIVE SetSum(_, _)
\* the sum of g over the set S
SetSum(g, S) ==
    IF S = {} THEN 0
    ELSE LET p == CHOOSE q \in S : TRUE IN g[p] + SetSum(g, S \ {p})

\* the assignment v meets the linear constraint c
Meets(v, c) ==
    CASE c.sense = "==" -> SetSum(v, c.vars) = c.rhs
      [] c.sense = ">=" -> SetSum(v, c.vars) >= c.rhs
      [] c.sense = "<=" -> SetSum(v, c.vars) <= c.rhs

\* the assignments of the binary variables that meet every constraint
Feasible(lp) ==
    {v \in [lp.vars -> {0, 1}] : \A c \in lp.constraints : Meets(v, c)}

\* the objective's value at v
ObjValue(lp, v) == SetSum([p \in lp.vars |-> lp.objective[p] * v[p]], lp.vars)

\* what the solver may leave behind: a minimizing feasible assignment (any
\* of them: ties are the solver's), or a report of infeasibility, after
\* which the variables' values are whatever the solver left in them
SolverOutcomes(lp) ==
    IF Feasible(lp) = {}
    THEN {[status |-> "Infeasible", varValue |-> v] : v \in [lp.vars -> {0, 1, None}]}
    ELSE {[status |-> "Optimal", varValue |-> v] :
            v \in {u \in Feasible(lp) :
                     \A w \in Feasible(lp) : ObjValue(lp, u) <= ObjValue(lp, w)}}

\* "if x[(f, d)].varValue == 1"
IsChosen(v) == v = 1

\* the dict of the pairs whose variable is 1
ExtractSolution(varValue) ==
    [p \in {q \in DOMAIN varValue : IsChosen(varValue[q])} |-> varValue[p]]

\* __init__ stores its four arguments as they are
InitFields(cs, ts, fs, ds) ==
    /\ costs' = cs
    /\ distances' = ts
    /\ facilities' = fs
    /\ demand_points' = ds

\* SupplyChainOptimizer(costs, distances, facilities, demand_points), with
\* every pair of lists of unique identifiers (the empty ones too) and either
\* complete tables over them or tables with a hole
OptConstruct ==
    /\ program = "PROJECT"
    /\ opt_pc = "start"
    /\ \E fs \in UniqueSeqs(FacilityIds), ds \in UniqueSeqs(DemandIds) :
        \/ \E cs \in FullTables(Range(fs), Range(ds)),
              ts \in FullTables(Range(fs), Range(ds)) : InitFields(cs, ts, fs, ds)
        \/ \E cs \in HoledTables(Range(fs), Range(ds)),
              ts \in HoledTables(Range(fs), Range(ds)) : InitFields(cs, ts, fs, ds)
    /\ opt_pc' = "constructed"
    /\ UNCHANGED <<weight_cost, weight_distance, solver_invoked, solver_status,
                   solution, opt_error>>
    /\ UNCHANGED <<program, ses_vars>>

\* optimizer.solve(weight_cost, weight_distance): the whole call.  solve
\* assigns to no field of the instance, so a second call on the same
\* instance sees what the first saw: one call per instance is modelled.
Solve ==
    /\ opt_pc = "constructed"
    /\ \E w \in Weights :
        /\ weight_cost' = w[1]
        /\ weight_distance' = w[2]
        /\ LET err == ObjectiveError(costs, distances, facilities, demand_points)
           IN  IF err # NoError
               THEN /\ opt_pc' = "raised"
                    /\ opt_error' = err
                    /\ solver_invoked' = FALSE
                    /\ solver_status' = NoValue
                    /\ solution' = NoValue
               ELSE \E out \in SolverOutcomes(BuildModel(costs, distances, facilities,
                                                         demand_points, w[1], w[2])) :
                    /\ opt_pc' = "returned"
                    /\ opt_error' = NoError
                    /\ solver_invoked' = TRUE
                    /\ solver_status' = out.status
                    /\ solution' = ExtractSolution(out.varValue)
    /\ UNCHANGED <<costs, distances, facilities, demand_points>>
    /\ UNCHANGED <<program, ses_vars>>

(***************************************************************************)
(* SimpleExponentialSmoothing                                              *)
(***************************************************************************)
\* alpha is drawn from the multiples of 1/AlphaDen in [-1/AlphaDen, 1 + 1/AlphaDen]
AlphaDen == 2
\* a series has at most MaxLen values, each in -1..MaxDemand
MaxLen == 3
MaxDemand == 1

Abs(n) == IF n < 0 THEN 0 - n ELSE n

RECURSIVE GCD(_, _)
GCD(a, b) == IF b = 0 THEN a ELSE GCD(b, a % b)

\* the number n/d (d > 0), in lowest terms
Rat(n, d) ==
    LET g == GCD(Abs(n), d) IN [num |-> n \div g, den |-> d \div g]

RatAdd(x, y) == Rat(x.num * y.den + y.num * x.den, x.den * y.den)
RatSub(x, y) == Rat(x.num * y.den - y.num * x.den, x.den * y.den)
RatMul(x, y) == Rat(x.num * y.num, x.den * y.den)
RatLt(x, y) == x.num * y.den < y.num * x.den
RatLe(x, y) == x.num * y.den <= y.num * x.den
Zero == Rat(0, 1)
One == Rat(1, 1)

Alphas == {Rat(a, AlphaDen) : a \in (0 - 1)..(AlphaDen + 1)}
DemandVals == {Rat(v, 1) : v \in (0 - 1)..MaxDemand}
Series == UNION {[1..n -> DemandVals] : n \in 0..MaxLen}

\* a plausible slip: the closed interval [0, 1]
AlphaValid_Closed(a) == RatLe(Zero, a) /\ RatLe(a, One)

\* "0 < alpha <= 1"
AlphaValid(a) == RatLt(Zero, a) /\ RatLe(a, One)

ValueError(msg) == [type |-> "ValueError", args |-> <<msg>>]

\* a plausible slip: the two weights of the blend exchanged
Smooth_Swapped(a, actual, f) == RatAdd(RatMul(a, f), RatMul(RatSub(One, a), actual))

\* "forecast = self.alpha * actual + (1 - self.alpha) * forecast"
Smooth(a, actual, f) == RatAdd(RatMul(a, actual), RatMul(RatSub(One, a), f))

RECURSIVE ForecastLoop_SkipLast(_, _, _, _)
\* a plausible slip: the loop stops one value short
ForecastLoop_SkipLast(a, s, i, f) ==
    IF i >= Len(s) THEN f ELSE ForecastLoop_SkipLast(a, s, i + 1, Smooth(a, s[i], f))

RECURSIVE ForecastLoop(_, _, _, _)
\* "for actual in demand_series[1:]": the loop from the i-th value on, with f
\* the running forecast
ForecastLoop(a, s, i, f) ==
    IF i > Len(s) THEN f ELSE ForecastLoop(a, s, i + 1, Smooth(a, s[i], f))

\* a plausible slip: no check, so that demand_series[0] raises IndexError
ForecastOutcome_NoCheck(a, s) ==
    IF Len(s) = 0
    THEN [pc |-> "raised",
          error |-> [type |-> "IndexError", args |-> <<"list index out of range">>],
          value |-> NoValue]
    ELSE [pc |-> "returned", error |-> NoError,
          value |-> ForecastLoop(a, s, 2, s[1])]

\* forecast(demand_series): what the call ends in
ForecastOutcome(a, s) ==
    IF Len(s) = 0
    THEN [pc |-> "raised", error |-> ValueError("Demand series cannot be empty."),
          value |-> NoValue]
    ELSE [pc |-> "returned", error |-> NoError,
          value |-> ForecastLoop(a, s, 2, s[1])]

\* SimpleExponentialSmoothing(alpha)
SesConstruct ==
    /\ program = "ses_model_and_example_combined"
    /\ ses_pc = "start"
    /\ \E a \in Alphas :
        /\ alpha_arg' = a
        /\ IF AlphaValid(a)
           THEN /\ alpha' = a
                /\ ses_pc' = "constructed"
                /\ ses_error' = NoError
           ELSE /\ alpha' = NoValue
                /\ ses_pc' = "rejected"
                /\ ses_error' = ValueError("Alpha must be between 0 and 1.")
    /\ UNCHANGED <<demand_series, forecast>>
    /\ UNCHANGED <<program, opt_vars>>

\* model.forecast(demand_series), on an instance that exists
Forecast ==
    /\ ses_pc \in {"constructed", "returned", "raised"}
    /\ \E s \in Series :
        LET out == ForecastOutcome(alpha, s)
        IN  /\ demand_series' = s
            /\ ses_pc' = out.pc
            /\ ses_error' = out.error
            /\ forecast' = out.value
    /\ UNCHANGED <<alpha_arg, alpha>>
    /\ UNCHANGED <<program, opt_vars>>

(***************************************************************************)
(* The specification: a run executes one of the two modules                *)
(***************************************************************************)
Init ==
    /\ program \in {"PROJECT", "ses_model_and_example_combined"}
    /\ costs = NoValue /\ distances = NoValue
    /\ facilities = NoValue /\ demand_points = NoValue
    /\ opt_pc = "start"
    /\ weight_cost = NoValue /\ weight_distance = NoValue
    /\ solver_invoked = FALSE /\ solver_status = NoValue
    /\ solution = NoValue /\ opt_error = NoError
    /\ alpha_arg = NoValue /\ alpha = NoValue /\ ses_pc = "start"
    /\ demand_series = NoValue /\ forecast = NoValue /\ ses_error = NoError

Next == OptConstruct \/ Solve \/ SesConstruct \/ Forecast

Spec == Init /\ [][Next]_vars

(***************************************************************************)
(* Properties of SupplyChainOptimizer.solve                                *)
(***************************************************************************)
\* solve has been called and has ended
SolveEnded == opt_pc \in {"returned", "raised"}

\* non-empty lists, and both tables hold an entry for every pair of them
WellFormed ==
    /\ opt_pc # "start"
    /\ Len(facilities) > 0
    /\ Len(demand_points) > 0
    /\ \A f \in Range(facilities), d \in Range(demand_points) :
            HasEntry(costs, f, d) /\ HasEntry(distances, f, d)

\* some table lacks an entry for a pair of the (non-empty) lists
MissingEntry ==
    /\ opt_pc # "start"
    /\ \E f \in Range(facilities), d \in Range(demand_points) :
            ~HasEntry(costs, f, d) \/ ~HasEntry(distances, f, d)

\* the facilities the solution pairs with d
ServedBy(d) == {p[1] : p \in {q \in DOMAIN solution : q[2] = d}}

\* the weighted score of the pair (f, d), in tenths
Score(f, d) == weight_cost * costs[f][d] + weight_distance * distances[f][d]

RECURSIVE TotalScore(_)
\* the sum of the scores of a set of pairs
TotalScore(P) ==
    IF P = {} THEN 0
    ELSE LET p == CHOOSE q \in P : TRUE IN Score(p[1], p[2]) + TotalScore(P \ {p})

\* C1: for non-empty lists of unique identifiers and tables with an entry
\* for every pair, solve returns, and its solution holds exactly one pair
\* (f, d) for each demand point d: as many pairs as demand points.
C1_OneFacilityPerDemandPoint ==
    (SolveEnded /\ WellFormed) =>
        /\ opt_pc = "returned"
        /\ \A p \in DOMAIN solution :
                p[1] \in Range(facilities) /\ p[2] \in Range(demand_points)
        /\ \A d \in Range(demand_points) : Cardinality(ServedBy(d)) = 1
        /\ Cardinality(DOMAIN solution) = Len(demand_points)

\* two demand points served by two different facilities
C1_Witness ==
    /\ opt_pc = "returned" /\ WellFormed
    /\ Len(facilities) = 2 /\ Len(demand_points) = 2
    /\ ServedBy("D1") = {"F1"} /\ ServedBy("D2") = {"F2"}

\* C2: the returned assignment minimizes the objective: every assignment
\* that gives each demand point exactly one facility has a sum of
\* weight_cost * cost + weight_distance * distance at least as large as the
\* returned solution's.
C2_ObjectiveMinimal ==
    (SolveEnded /\ WellFormed) =>
        /\ opt_pc = "returned"
        /\ \A alt \in [Range(demand_points) -> Range(facilities)] :
                TotalScore({<<alt[d], d>> : d \in Range(demand_points)})
                    >= TotalScore(DOMAIN solution)

\* a solve with both weights positive where cost and distance pull apart:
\* some other assignment is strictly worse, and the cheapest facility of D1
\* is not the one chosen
C2_Witness ==
    /\ opt_pc = "returned" /\ WellFormed
    /\ Len(facilities) = 2 /\ Len(demand_points) = 2
    /\ weight_cost = 6 /\ weight_distance = 4
    /\ \E alt \in [Range(demand_points) -> Range(facilities)] :
            TotalScore({<<alt[d], d>> : d \in Range(demand_points)})
                > TotalScore(DOMAIN solution)
    /\ \E f \in ServedBy("D1"), g \in Range(facilities) :
            distances[g]["D1"] < distances[f]["D1"]

\* C3: solve with an empty facility list or an empty demand-point list fails
\* with an error before the solver is invoked; it returns no solution.
C3_EmptyListsRejected ==
    (SolveEnded /\ (Len(facilities) = 0 \/ Len(demand_points) = 0)) =>
        opt_pc = "raised" /\ ~solver_invoked

\* C4: when the solver reports anything but an optimal solution, solve
\* surfaces an error; it does not return an assignment dictionary.
C4_SolverFailureSurfaced ==
    (SolveEnded /\ solver_invoked /\ solver_status # "Optimal") =>
        opt_pc = "raised"

\* C5: solve with a table that lacks an entry for a pair of the lists fails
\* before the solver is invoked, with an error that names the offending
\* argument (the cost table or the distance table).
C5_MissingEntryReported ==
    (SolveEnded /\ MissingEntry) =>
        /\ opt_pc = "raised"
        /\ ~solver_invoked
        /\ \E i \in DOMAIN opt_error.args : opt_error.args[i] \in {"costs", "distances"}

\* C10: with weight_cost = 1 and weight_distance = 0 every demand point is
\* assigned to a facility of minimal cost for it, whatever the distances and
\* the other demand points are; with weight_distance = 1 and weight_cost = 0,
\* to a facility of minimal distance, whatever the costs are.
C10_PureWeightsReduceToPerPointMinimum ==
    (SolveEnded /\ WellFormed) =>
        /\ (weight_cost = 10 /\ weight_distance = 0) =>
                /\ opt_pc = "returned"
                /\ \A d \in Range(demand_points) :
                    /\ ServedBy(d) # {}
                    /\ \A f \in ServedBy(d), g \in Range(facilities) :
                            costs[f][d] <= costs[g][d]
        /\ (weight_cost = 0 /\ weight_distance = 10) =>
                /\ opt_pc = "returned"
                /\ \A d \in Range(demand_points) :
                    /\ ServedBy(d) # {}
                    /\ \A f \in ServedBy(d), g \in Range(facilities) :
                            distances[f][d] <= distances[g][d]

\* a cost-only solve whose choice for D1 is strictly cheapest and strictly
\* farthest, with D2 served by the other facility
C10_Witness ==
    /\ opt_pc = "returned" /\ WellFormed
    /\ weight_cost = 10 /\ weight_distance = 0
    /\ Len(facilities) = 2 /\ Len(demand_points) = 2
    /\ ServedBy("D1") = {"F1"} /\ ServedBy("D2") = {"F2"}
    /\ costs["F1"]["D1"] < costs["F2"]["D1"]
    /\ distances["F1"]["D1"] > distances["F2"]["D1"]

(***************************************************************************)
(* Properties of SimpleExponentialSmoothing                                *)
(***************************************************************************)
RECURSIVE F(_, _, _)
\* F_1 = s[0], F_k = alpha * s[k-1] + (1 - alpha) * F_(k-1)
F(a, s, k) ==
    IF k = 1 THEN s[1]
    ELSE RatAdd(RatMul(a, s[k]), RatMul(RatSub(One, a), F(a, s, k - 1)))

\* C6: constructing succeeds exactly when alpha is in (0, 1]: otherwise a
\* ValueError is raised and no instance exists; on success alpha is stored.
C6_AlphaValidated ==
    (ses_pc # "start") =>
        IF alpha_arg.num > 0 /\ alpha_arg.num <= alpha_arg.den
        THEN ses_pc # "rejected" /\ alpha = alpha_arg
        ELSE ses_pc = "rejected" /\ ses_error.type = "ValueError" /\ alpha = NoValue

\* alpha = 0 has been rejected
C6_Witness == ses_pc = "rejected" /\ alpha_arg = Zero

\* C7: forecast of an empty series raises ValueError, for every valid alpha,
\* and returns no value.
C7_EmptySeriesRejected ==
    (ses_pc \in {"returned", "raised"} /\ Len(demand_series) = 0) =>
        /\ ses_pc = "raised"
        /\ ses_error.type = "ValueError"
        /\ forecast = NoValue

\* forecast([]) has raised on an instance with alpha = 1
C7_Witness == ses_pc = "raised" /\ Len(demand_series) = 0 /\ alpha = One

\* C8: forecast of a non-empty series of length n returns F_n, the values
\* folded oldest first; a series [v] returns v.
C8_ForecastIsRecurrence ==
    (ses_pc \in {"returned", "raised"} /\ Len(demand_series) > 0) =>
        /\ ses_pc = "returned"
        /\ forecast = F(alpha, demand_series, Len(demand_series))
        /\ Len(demand_series) = 1 => forecast = demand_series[1]

\* a series of three different values folded with an alpha below 1
C8_Witness ==
    /\ ses_pc = "returned" /\ Len(demand_series) = 3 /\ alpha # One
    /\ demand_series[1] # demand_series[2]
    /\ demand_series[2] # demand_series[3]
    /\ demand_series[1] # demand_series[3]

\* C9: with alpha = 1 forecast returns the last value of the series.
C9_AlphaOneReturnsLast ==
    (ses_pc = "returned" /\ alpha = One) =>
        forecast = demand_series[Len(demand_series)]

\* alpha = 1 and a series whose last value differs from the earlier ones
C9_Witness ==
    /\ ses_pc = "returned" /\ alpha = One /\ Len(demand_series) = 3
    /\ demand_series[3] # demand_series[1]
    /\ demand_series[3] # demand_series[2]

====
